---- MODULE Spec2Model ----
(***************************************************************************)
(* Model of the identity / row-level authorization schema of              *)
(* studytimer-api/supabase/migrations/20260101120000_initial_schema.sql:  *)
(* the tables public.users and public.devices, their constraints, the     *)
(* row level security policies, and the triggers that mirror the identity *)
(* provider's accounts (auth.users) into public.users.                     *)
(*                                                                         *)
(* Every action is one SQL statement run to completion: a statement that  *)
(* raises an error changes nothing (statement atomicity).  The column      *)
(* created_at is written once by its DEFAULT and read by no policy,        *)
(* constraint or trigger: rows carry updated_at only.                      *)
(*                                                                         *)
(* SpecConcurrent runs an account deletion and a statement of the same     *)
(* identity as two open transactions, step by step.  SpecOnboarding is the *)
(* pair of sign-in handlers of studytimer-mobile/app/(auth)/onboarding.tsx.*)
(***************************************************************************)
EXTENDS Integers, FiniteSets, Sequences, TLC

\* ------------------------------------------------------------------ bounds
MaxTime == 1        \* the clock NOW() runs over 0..MaxTime
MaxDevId == 2       \* at most MaxDevId Device rows are ever created
MaxAlerts == 3      \* the onboarding screen shows at most MaxAlerts alerts

\* ------------------------------------------------------------------ values
NULL == "NULL"                       \* SQL NULL of a text / uuid column
Ids == {"u1", "u2"}                  \* identity keys issued by the provider
Callers == Ids \cup {NULL}           \* auth.uid(): NULL for an unauthenticated caller
Tokens == {"tok-1", "tok-2"}         \* push tokens
Emails == {NULL, "a@example.com"}    \* auth.users.email
\* auth.users.raw_user_meta_data: SQL NULL, or a JSON object holding some of the keys
MetaKeys == {"full_name", "avatar_url"}
JsonObjects == { [k \in K |-> IF k = "full_name" THEN "Ann" ELSE "http://img"] :
                    K \in SUBSET MetaKeys }
MetaData == { [isNull |-> TRUE, obj |-> <<>>] } \cup
            { [isNull |-> FALSE, obj |-> o] : o \in JsonObjects }
\* What the provider supplies with an account-created event
Payloads == [email : Emails, raw_user_meta_data : MetaData]
\* The provider's payload of the scenario of the specification (section 8, item 6):
\* an email and no metadata
ScenarioPayloads == { [email |-> "a@example.com",
                       raw_user_meta_data |-> [isNull |-> TRUE, obj |-> <<>>]] }
FutureTime == MaxTime + 1            \* a caller-supplied timestamp ahead of the clock
SuppliedTimes == {0, FutureTime}     \* caller-supplied values for updated_at

VARIABLES
    auth,       \* auth.users: the ids of the active identity-provider accounts
    users,      \* public.users: a set of rows
    devices,    \* public.devices: a set of rows
    now,        \* the value NOW() / CURRENT_TIMESTAMP returns
    nextDevId,  \* the next value gen_random_uuid() returns (never a repeated one)
    last,       \* the last statement: who issued it, its outcome, its result rows
    txn,        \* two transactions in flight on one identity, and the row lock
    screen      \* the onboarding screen: the sign-in calls pending, the alerts shown

vars == <<auth, users, devices, now, nextDevId, last, txn, screen>>

\* ------------------------------------------------------------ expressions
\* SQL "a = b" used as a condition: true only when both sides are non-NULL and equal
SqlEq(a, b) == a # NULL /\ b # NULL /\ a = b

\* raw_user_meta_data->>key: NULL for a NULL document or a missing key
JsonText(meta, key) ==
    IF meta.isNull THEN NULL
    ELSE IF key \in DOMAIN meta.obj THEN meta.obj[key] ELSE NULL

\* The database role of a caller: policies are granted TO authenticated only
Role(uid) == IF uid = NULL THEN "anon" ELSE "authenticated"

\* SET col = value, ... applied to one row
ApplyPatch(row, patch) ==
    [f \in DOMAIN row |-> IF f \in DOMAIN patch THEN patch[f] ELSE row[f]]

\* Mutant: the BEFORE UPDATE trigger is missing, the supplied value stays
handle_updated_at_Missing(new) == new

\* handle_updated_at(): NEW.updated_at = NOW()
handle_updated_at(new) == [new EXCEPT !.updated_at = now]

\* --------------------------------------------------- row level security
\* A policy TO authenticated ... USING / WITH CHECK (auth.uid() = <owner column>)
\* holds of a row for the caller uid.

\* Mutant: profiles are readable by everyone, USING (true) TO public
UsersSelectUsing_Public(uid, row) == TRUE

\* "Users can view their own data": FOR SELECT USING (auth.uid() = id)
UsersSelectUsing(uid, row) == Role(uid) = "authenticated" /\ SqlEq(uid, row.id)
\* "Users can update their data": FOR UPDATE USING (..) WITH CHECK (..)
UsersUpdateUsing(uid, row) == Role(uid) = "authenticated" /\ SqlEq(uid, row.id)
UsersUpdateCheck(uid, row) == Role(uid) = "authenticated" /\ SqlEq(uid, row.id)
\* "Users can delete their own data": FOR DELETE USING (auth.uid() = id)
UsersDeleteUsing(uid, row) == Role(uid) = "authenticated" /\ SqlEq(uid, row.id)

\* Mutant: a policy FOR INSERT WITH CHECK (auth.uid() = id) exists
UsersInsertCheck_Own(uid, row) == Role(uid) = "authenticated" /\ SqlEq(uid, row.id)

\* Row level security is enabled on users and no policy is FOR INSERT
UsersInsertCheck(uid, row) == FALSE

\* Mutant: every authenticated caller reads every device, USING (true)
DevicesSelectUsing_NoOwner(uid, row) == Role(uid) = "authenticated"

\* "Users can view their own devices": FOR SELECT USING (auth.uid() = user_id)
DevicesSelectUsing(uid, row) == Role(uid) = "authenticated" /\ SqlEq(uid, row.user_id)
\* "Users can create their own devices": FOR INSERT WITH CHECK (..)
DevicesInsertCheck(uid, row) == Role(uid) = "authenticated" /\ SqlEq(uid, row.user_id)
\* "Users can update their own devices": FOR UPDATE USING (..) WITH CHECK (..)
DevicesUpdateUsing(uid, row) == Role(uid) = "authenticated" /\ SqlEq(uid, row.user_id)

\* Mutant: the new row is not checked, WITH CHECK (true)
DevicesUpdateCheck_True(uid, row) == Role(uid) = "authenticated"

DevicesUpdateCheck(uid, row) == Role(uid) = "authenticated" /\ SqlEq(uid, row.user_id)
\* "Users can delete their own devices": FOR DELETE USING (auth.uid() = user_id)
DevicesDeleteUsing(uid, row) == Role(uid) = "authenticated" /\ SqlEq(uid, row.user_id)

\* ------------------------------------------------------------ constraints
\* Mutant: public.users has no primary key
users_pkey_Missing(us) == TRUE
\* users: id NOT NULL, users_pkey UNIQUE (id)
UsersNotNull(us) == \A r \in us : r.id # NULL
users_pkey(us) == \A r, q \in us : r.id = q.id => r = q
\* Mutant: fcm_token is declared without NOT NULL
DevicesNotNull_OwnerOnly(ds) == \A d \in ds : d.user_id # NULL
\* devices: user_id, fcm_token NOT NULL, devices_pkey UNIQUE (id)
DevicesNotNull(ds) == \A d \in ds : d.user_id # NULL /\ d.fcm_token # NULL
devices_pkey(ds) == \A d, e \in ds : d.id = e.id => d = e
\* Mutant: the index is on the token alone, UNIQUE (fcm_token)
devices_fcm_token_key(ds) ==
    \A d, e \in ds : d.fcm_token = e.fcm_token => d = e
\* UNIQUE (user_id, fcm_token)
devices_user_id_fcm_token_key(ds) ==
    \A d, e \in ds : (d.user_id = e.user_id /\ d.fcm_token = e.fcm_token) => d = e
\* Mutant: the foreign key is missing
devices_user_id_fkey_Missing(us, ds) == TRUE
\* FOREIGN KEY (user_id) REFERENCES users(id)
devices_user_id_fkey(us, ds) == \A d \in ds : \E r \in us : r.id = d.user_id
\* Mutant: the cascade removes the devices of every user
CascadeDelete_All(ds, gone) == IF gone = {} THEN ds ELSE {}
\* ... ON DELETE CASCADE: the devices left once the users in gone are deleted
CascadeDelete(ds, gone) == { d \in ds : \A r \in gone : d.user_id # r.id }

ConstraintsHold(us, ds) ==
    /\ UsersNotNull(us) /\ users_pkey(us)
    /\ DevicesNotNull(ds) /\ devices_pkey(ds)
    /\ devices_user_id_fcm_token_key(ds)
    /\ devices_user_id_fkey(us, ds)

\* -------------------------------------------------------------- outcomes
\* op: the statement or event; by: auth.uid() of the caller, or "provider";
\* key: the identity key the statement writes or the event names, if any;
\* arg: the rest of the request (the provider's email and metadata; the token
\* and updated_at of an INSERT INTO devices; the rows S the WHERE clause
\* matches and the SET list of an UPDATE; the rows S of a SELECT or DELETE).
\* status: "ok"; "denied" (row level security violation); "rejected"
\* (constraint violation).  urows / drows: the users / devices rows the
\* statement returned (SELECT, INSERT or UPDATE ... RETURNING) or removed
\* (DELETE, with the rows its cascade removed).
Outcome(op, by, key, arg, status, ur, dr) ==
    [op |-> op, by |-> by, key |-> key, arg |-> arg, status |-> status,
     urows |-> ur, drows |-> dr]

\* No transaction is in flight, no row is locked
TxnIdle ==
    [start |-> NULL, time |-> 0, lock |-> NULL,
     del |-> [pc |-> "idle", key |-> NULL, gone |-> {}, casc |-> {}],
     op  |-> [pc |-> "idle", kind |-> NULL, by |-> NULL, token |-> NULL, id |-> 0,
              old |-> {}, newU |-> {}, newD |-> {}, status |-> NULL]]

\* The onboarding screen as mounted: no handler is running, no alert was shown
ScreenIdle ==
    [pending |-> {}, alerts |-> <<>>,
     done |-> [handler |-> NULL, rejected |-> FALSE,
               error |-> [isError |-> FALSE, message |-> NULL], outcome |-> NULL]]

Init ==
    /\ auth = {}
    /\ users = {}
    /\ devices = {}
    /\ now = 0
    /\ nextDevId = 1
    /\ last = Outcome("none", NULL, NULL, NULL, "ok", {}, {})
    /\ txn = TxnIdle
    /\ screen = ScreenIdle

\* The clock advances and a new transaction begins: NOW() is the start time of
\* the transaction, so the statements issued until the next NewTransaction
\* (those of one transaction, or of transactions begun within one tick) read
\* the same NOW()
NewTransaction ==
    /\ now < MaxTime
    /\ now' = now + 1
    /\ UNCHANGED <<auth, users, devices, nextDevId, last>>

\* Mutant: the metadata keys are swapped between the two columns
handle_new_user_Swapped(new) ==
    [id           |-> new.id,
     display_name |-> JsonText(new.raw_user_meta_data, "avatar_url"),
     email        |-> new.email,
     photo_url    |-> JsonText(new.raw_user_meta_data, "full_name"),
     updated_at   |-> now]
\* ------------------------------------------------- identity provider events
\* handle_new_user(): the row INSERTed INTO public.users for the auth.users row new (NEW)
handle_new_user(new) ==
    [id           |-> new.id,
     display_name |-> JsonText(new.raw_user_meta_data, "full_name"),
     email        |-> new.email,
     photo_url    |-> JsonText(new.raw_user_meta_data, "avatar_url"),
     updated_at   |-> now]

\* Mutant: the trigger function deletes nothing
handle_deleted_user_Noop(old) == {}
\* Mutant: the DELETE has no WHERE clause
handle_deleted_user_All(old) == users
\* handle_deleted_user(): the rows DELETEd FROM public.users for the auth.users row old (OLD)
handle_deleted_user(old) == { r \in users : r.id = old.id }

\* Mutant: the mirror runs outside the provider's transaction, a failed INSERT
\* INTO public.users leaves the new auth.users row in place
AccountCreated_NoRollback(k, payload) ==
    LET new == [id |-> k, email |-> payload.email,
                raw_user_meta_data |-> payload.raw_user_meta_data]
        row == handle_new_user(new)
        us2 == users \cup {row}
    IN  /\ k \notin auth
        /\ auth' = auth \cup {k}
        /\ IF ConstraintsHold(us2, devices) /\ row \notin users
           THEN /\ users' = us2
                /\ last' = Outcome("account_created", "provider", k, new, "ok", {row}, {})
           ELSE /\ UNCHANGED users
                /\ last' = Outcome("account_created", "provider", k, new, "rejected", {}, {})
        /\ UNCHANGED <<devices, now, nextDevId>>

\* on_auth_user_created: AFTER INSERT ON auth.users, in the provider's transaction
AccountCreated(k, payload) ==
    LET new == [id |-> k, email |-> payload.email,
                raw_user_meta_data |-> payload.raw_user_meta_data]
        row == handle_new_user(new)
        us2 == users \cup {row}
    IN  /\ k \notin auth
        /\ IF ConstraintsHold(us2, devices) /\ row \notin users
           THEN /\ auth' = auth \cup {k}
                /\ users' = us2
                /\ last' = Outcome("account_created", "provider", k, new, "ok", {row}, {})
           ELSE /\ UNCHANGED <<auth, users>>
                /\ last' = Outcome("account_created", "provider", k, new, "rejected", {}, {})
        /\ UNCHANGED <<devices, now, nextDevId>>

\* on_auth_user_deleted: AFTER DELETE ON auth.users, in the provider's transaction
AccountDeleted(k) ==
    LET gone == handle_deleted_user([id |-> k])
        us2  == users \ gone
        ds2  == CascadeDelete(devices, gone)
    IN  /\ k \in auth
        /\ IF ConstraintsHold(us2, ds2)
           THEN /\ auth' = auth \ {k}
                /\ users' = us2
                /\ devices' = ds2
                /\ last' = Outcome("account_deleted", "provider", k, NULL, "ok",
                                   gone, devices \ ds2)
           ELSE /\ UNCHANGED <<auth, users, devices>>
                /\ last' = Outcome("account_deleted", "provider", k, NULL, "rejected",
                                   {}, {})
        /\ UNCHANGED <<now, nextDevId>>

\* ------------------------------------------------------ caller statements
\* Every statement carries the caller's identity uid = auth.uid().  S is the
\* set of rows the statement's WHERE clause matches.

\* The outcome of writing the tables us2, ds2: kept only if every constraint holds
Commit(op, uid, key, arg, us2, ds2, ur, dr) ==
    IF ConstraintsHold(us2, ds2)
    THEN /\ users' = us2
         /\ devices' = ds2
         /\ last' = Outcome(op, uid, key, arg, "ok", ur, dr)
    ELSE /\ UNCHANGED <<users, devices>>
         /\ last' = Outcome(op, uid, key, arg, "rejected", {}, {})

Deny(op, uid, key, arg) ==
    /\ UNCHANGED <<users, devices>>
    /\ last' = Outcome(op, uid, key, arg, "denied", {}, {})

\* The identity key a SET list writes, if any
PatchKey(patch, col) == IF col \in DOMAIN patch THEN patch[col] ELSE NULL

\* SET lists of UPDATE public.users: a profile edit, a supplied updated_at, a new id
ProfileEdits == { [display_name |-> "Ann"] }
UserPatches ==
    { [updated_at |-> t] : t \in SuppliedTimes } \cup
    { [id |-> j] : j \in Ids }

\* SET lists of UPDATE public.devices: a token refresh, a supplied updated_at, a new owner

DevicePatches ==
    { [fcm_token |-> t] : t \in Tokens } \cup
    { [updated_at |-> t] : t \in SuppliedTimes } \cup
    { [user_id |-> j] : j \in Ids }

\* SELECT ... FROM public.users WHERE ...
SelectUsers(uid, S) ==
    /\ last' = Outcome("select_users", uid, NULL, [rows |-> S], "ok",
                       { r \in S : UsersSelectUsing(uid, r) }, {})
    /\ UNCHANGED <<auth, users, devices, now, nextDevId>>

\* INSERT INTO public.users (id) VALUES (k)
InsertUsers(uid, k) ==
    LET row == [id |-> k, display_name |-> NULL, email |-> NULL, photo_url |-> NULL,
                updated_at |-> now]
    IN  /\ IF ~ UsersInsertCheck(uid, row)
           THEN Deny("insert_users", uid, k, NULL)
           ELSE IF row.id \in { r.id : r \in users }
                THEN /\ UNCHANGED <<users, devices>>
                     /\ last' = Outcome("insert_users", uid, k, NULL, "rejected", {}, {})
                ELSE Commit("insert_users", uid, k, NULL, users \cup {row}, devices, {row}, {})
        /\ UNCHANGED <<auth, now, nextDevId>>

\* UPDATE public.users SET patch WHERE ...
UpdateUsers(uid, S, patch) ==
    LET visible == { r \in S : UsersUpdateUsing(uid, r) /\ UsersSelectUsing(uid, r) }
        newRows == { handle_updated_at(ApplyPatch(r, patch)) : r \in visible }
        us2     == (users \ visible) \cup newRows
        key     == PatchKey(patch, "id")
        req     == [rows |-> S, set |-> patch]
    IN  /\ IF \E n \in newRows : ~ UsersUpdateCheck(uid, n)
           THEN Deny("update_users", uid, key, req)
           ELSE IF Cardinality(us2) # Cardinality(users)
                THEN /\ UNCHANGED <<users, devices>>
                     /\ last' = Outcome("update_users", uid, key, req, "rejected", {}, {})
                ELSE Commit("update_users", uid, key, req, us2, devices, newRows, {})
        /\ UNCHANGED <<auth, now, nextDevId>>

\* DELETE FROM public.users WHERE ...
DeleteUsers(uid, S) ==
    LET gone == { r \in S : UsersDeleteUsing(uid, r) /\ UsersSelectUsing(uid, r) }
        ds2  == CascadeDelete(devices, gone)
    IN  /\ Commit("delete_users", uid, NULL, [rows |-> S], users \ gone, ds2, gone, devices \ ds2)
        /\ UNCHANGED <<auth, now, nextDevId>>

\* SELECT ... FROM public.devices WHERE ...
SelectDevices(uid, S) ==
    /\ last' = Outcome("select_devices", uid, NULL, [rows |-> S], "ok",
                       {}, { d \in S : DevicesSelectUsing(uid, d) })
    /\ UNCHANGED <<auth, users, devices, now, nextDevId>>

\* INSERT INTO public.devices (user_id, fcm_token [, updated_at]) VALUES (...)
\* id takes its default; updated_at is the default CURRENT_TIMESTAMP or supplied
InsertDevices(uid, owner, token, upd) ==
    LET req == [token |-> token, updated_at |-> upd]
        row == [id |-> nextDevId, user_id |-> owner, fcm_token |-> token,
                updated_at |-> upd]
        ds2 == devices \cup {row}
        created == DevicesInsertCheck(uid, row) /\ ConstraintsHold(users, ds2)
    IN  /\ created => nextDevId <= MaxDevId
        /\ IF ~ DevicesInsertCheck(uid, row)
           THEN Deny("insert_devices", uid, owner, req)
           ELSE Commit("insert_devices", uid, owner, req, users, ds2, {}, {row})
        /\ nextDevId' = IF created THEN nextDevId + 1 ELSE nextDevId
        /\ UNCHANGED <<auth, now>>

\* UPDATE public.devices SET patch WHERE ...
UpdateDevices(uid, S, patch) ==
    LET visible == { d \in S : DevicesUpdateUsing(uid, d) /\ DevicesSelectUsing(uid, d) }
        newRows == { handle_updated_at(ApplyPatch(d, patch)) : d \in visible }
        ds2     == (devices \ visible) \cup newRows
        key     == PatchKey(patch, "user_id")
        req     == [rows |-> S, set |-> patch]
    IN  /\ IF \E n \in newRows : ~ DevicesUpdateCheck(uid, n)
           THEN Deny("update_devices", uid, key, req)
           ELSE Commit("update_devices", uid, key, req, users, ds2, {}, newRows)
        /\ UNCHANGED <<auth, now, nextDevId>>

\* Mutant: the predicate is evaluated once per request, a request that matches
\* one row of the caller is granted for every row it matches
DeleteDevices_PerRequest(uid, S) ==
    LET gone == IF \E d \in S : DevicesDeleteUsing(uid, d) /\ DevicesSelectUsing(uid, d)
                THEN S ELSE {}
    IN  /\ Commit("delete_devices", uid, NULL, [rows |-> S], users, devices \ gone, {}, gone)
        /\ UNCHANGED <<auth, now, nextDevId>>

\* DELETE FROM public.devices WHERE ...
DeleteDevices(uid, S) ==
    LET gone == { d \in S : DevicesDeleteUsing(uid, d) /\ DevicesSelectUsing(uid, d) }
    IN  /\ Commit("delete_devices", uid, NULL, [rows |-> S], users, devices \ gone, {}, gone)
        /\ UNCHANGED <<auth, now, nextDevId>>

\* A statement or event of the database leaves the transactions in flight and
\* the onboarding screen as they are
Elsewhere == UNCHANGED <<txn, screen>>

\* The next-state relation over the identities ids, the provider payloads
\* payloads, the push tokens tokens, the timestamps stamps a caller may supply
\* for updated_at in an INSERT INTO devices, and the profile edits edits
NextFor(ids, payloads, tokens, stamps, edits) ==
    \/ NewTransaction /\ Elsewhere
    \/ \E k \in ids, p \in payloads : AccountCreated(k, p) /\ Elsewhere
    \/ \E k \in ids : AccountDeleted(k) /\ Elsewhere
    \/ \E uid \in ids \cup {NULL}, S \in SUBSET users : SelectUsers(uid, S) /\ Elsewhere
    \/ \E uid \in ids \cup {NULL}, k \in ids : InsertUsers(uid, k) /\ Elsewhere
    \/ \E uid \in ids \cup {NULL}, S \in SUBSET users, p \in UserPatches \cup edits :
          UpdateUsers(uid, S, p) /\ Elsewhere
    \/ \E uid \in ids \cup {NULL}, S \in SUBSET users : DeleteUsers(uid, S) /\ Elsewhere
    \/ \E uid \in ids \cup {NULL}, S \in SUBSET devices : SelectDevices(uid, S) /\ Elsewhere
    \/ \E uid \in ids \cup {NULL}, o \in ids \cup {NULL}, t \in tokens \cup {NULL},
          u \in {now} \cup stamps : InsertDevices(uid, o, t, u) /\ Elsewhere
    \/ \E uid \in ids \cup {NULL}, S \in SUBSET devices, p \in DevicePatches :
          UpdateDevices(uid, S, p) /\ Elsewhere
    \/ \E uid \in ids \cup {NULL}, S \in SUBSET devices : DeleteDevices(uid, S) /\ Elsewhere

\* Two identities, two tokens, the scenario's payload, default timestamps,
\* no profile edit
Next == NextFor(Ids, ScenarioPayloads, Tokens, {}, {})
Spec == Init /\ [][Next]_vars

\* One identity, one token, every provider payload, caller-supplied timestamps,
\* profile edits
NextProfiles == NextFor({"u1"}, Payloads, {"tok-1"}, {FutureTime}, ProfileEdits)
SpecProfiles == Init /\ [][NextProfiles]_vars

\* ------------------------------------------------------ events as functions
\* The provider accounts and the two tables as one value
Store == [auth |-> auth, users |-> users, devices |-> devices]

\* The store an account-created event for k leaves when it is applied to the
\* store st in a transaction begun at time t (st itself when the mirror fails)
CreatedIn(st, k, payload, t) ==
    LET new == [id |-> k, email |-> payload.email,
                raw_user_meta_data |-> payload.raw_user_meta_data]
        row == [handle_new_user(new) EXCEPT !.updated_at = t]
        us2 == st.users \cup {row}
    IN  IF ConstraintsHold(us2, st.devices) /\ row \notin st.users
        THEN [auth |-> st.auth \cup {k}, users |-> us2, devices |-> st.devices]
        ELSE st

\* The store an account-deleted event for k leaves when it is applied to st
DeletedIn(st, k) ==
    LET gone == { r \in st.users : r.id = k }
        us2  == st.users \ gone
        ds2  == CascadeDelete(st.devices, gone)
    IN  IF ConstraintsHold(us2, ds2)
        THEN [auth |-> st.auth \ {k}, users |-> us2, devices |-> ds2]
        ELSE st

\* The events the provider can raise on the store st: an account is created
\* for an identity that has none, an existing account is deleted
EventsOn(st) ==
    { [op |-> "account_created", key |-> k, payload |-> p] :
         k \in Ids \ st.auth, p \in ScenarioPayloads } \cup
    { [op |-> "account_deleted", key |-> k, payload |-> NULL] : k \in st.auth }

ApplyEvent(st, e, t) ==
    IF e.op = "account_created" THEN CreatedIn(st, e.key, e.payload, t)
    ELSE DeletedIn(st, e.key)

\* ------------------------------------- redelivery and privileged statements
\* The account-created event of an account that exists is delivered again:
\* handle_new_user() runs once more for the auth.users row of k, and the error
\* its INSERT raises aborts the delivery
AccountRedelivered(k, payload) ==
    LET new == [id |-> k, email |-> payload.email,
                raw_user_meta_data |-> payload.raw_user_meta_data]
        row == handle_new_user(new)
        us2 == users \cup {row}
    IN  /\ k \in auth
        /\ IF ConstraintsHold(us2, devices) /\ row \notin users
           THEN /\ users' = us2
                /\ last' = Outcome("account_redelivered", "provider", k, new, "ok", {row}, {})
           ELSE /\ UNCHANGED users
                /\ last' = Outcome("account_redelivered", "provider", k, new, "rejected",
                                   {}, {})
        /\ UNCHANGED <<auth, devices, now, nextDevId>>

\* INSERT INTO public.users (id) VALUES (k) by the table owner or a role that
\* bypasses row level security (it is ENABLEd, not FORCEd): no policy applies
PrivilegedInsertUsers(k) ==
    LET row == [id |-> k, display_name |-> NULL, email |-> NULL, photo_url |-> NULL,
                updated_at |-> now]
    IN  /\ IF row.id \in { r.id : r \in users }
           THEN /\ UNCHANGED <<users, devices>>
                /\ last' = Outcome("insert_users", "table_owner", k, NULL, "rejected", {}, {})
           ELSE Commit("insert_users", "table_owner", k, NULL, users \cup {row}, devices, {row}, {})
        /\ UNCHANGED <<auth, now, nextDevId>>

\* Two payloads for one identity: what a second delivery carries may differ
SyncPayloads == ScenarioPayloads \cup
    { [email |-> "a@example.com",
       raw_user_meta_data |-> [isNull |-> FALSE, obj |-> [full_name |-> "Ann"]]] }

\* One identity, one token, profile edits, redelivered events and privileged inserts
NextSync ==
    \/ NextFor({"u1"}, SyncPayloads, {"tok-1"}, {}, ProfileEdits)
    \/ \E k \in {"u1"}, p \in SyncPayloads : AccountRedelivered(k, p) /\ Elsewhere
    \/ \E k \in {"u1"} : PrivilegedInsertUsers(k) /\ Elsewhere
SpecSync == Init /\ [][NextSync]_vars

\* ------------------------------------------- statements that name a device id
\* The error, if any, of INSERT INTO public.devices VALUES row by the caller uid
\* when the tables hold us and ds: the policy's WITH CHECK is evaluated first,
\* the constraints (NOT NULL, the unique indexes, the foreign key) after it
InsertStatus(uid, us, ds, row) ==
    IF ~ DevicesInsertCheck(uid, row) THEN "denied"
    ELSE IF row \in ds \/ ~ ConstraintsHold(us, ds \cup {row}) THEN "rejected"
    ELSE "ok"

\* INSERT INTO public.devices (id, user_id, fcm_token) VALUES (i, owner, token):
\* the column id has a DEFAULT, and no policy or trigger keeps a caller from
\* supplying it; i is an id gen_random_uuid() has returned before
InsertDevicesWithId(uid, i, owner, token) ==
    LET req == [id |-> i, token |-> token, updated_at |-> now]
        row == [id |-> i, user_id |-> owner, fcm_token |-> token, updated_at |-> now]
        status == InsertStatus(uid, users, devices, row)
    IN  /\ i < nextDevId
        /\ IF status = "ok"
           THEN /\ devices' = devices \cup {row}
                /\ last' = Outcome("insert_devices", uid, owner, req, "ok", {}, {row})
           ELSE /\ UNCHANGED devices
                /\ last' = Outcome("insert_devices", uid, owner, req, status, {}, {})
        /\ UNCHANGED <<auth, users, now, nextDevId>>

\* SET lists of UPDATE public.devices that clear a NOT NULL column
DeviceNullPatches == { [fcm_token |-> NULL], [user_id |-> NULL] }

\* Two identities, caller-supplied device ids, SET ... = NULL; no
\* statement on public.users but the owner's DELETE
NextDirect ==
    \/ NewTransaction /\ Elsewhere
    \/ \E k \in Ids, p \in ScenarioPayloads : AccountCreated(k, p) /\ Elsewhere
    \/ \E k \in Ids : AccountDeleted(k) /\ Elsewhere
    \/ \E uid \in Callers, S \in SUBSET users : DeleteUsers(uid, S) /\ Elsewhere
    \/ \E uid \in Callers, S \in SUBSET devices : SelectDevices(uid, S) /\ Elsewhere
    \/ \E uid \in Callers, o \in Callers, t \in Tokens \cup {NULL} :
          InsertDevices(uid, o, t, now) /\ Elsewhere
    \/ \E uid \in Callers, i \in 1..MaxDevId, o \in Callers, t \in {"tok-1", NULL} :
          InsertDevicesWithId(uid, i, o, t) /\ Elsewhere
    \/ \E uid \in Callers, S \in SUBSET devices,
          p \in { [fcm_token |-> "tok-1"] } \cup DeviceNullPatches :
          UpdateDevices(uid, S, p) /\ Elsewhere
    \/ \E uid \in Callers, S \in SUBSET devices : DeleteDevices(uid, S) /\ Elsewhere
SpecDirect == Init /\ [][NextDirect]_vars

\* --------------------------------------------------- concurrent transactions
\* The provider's transaction that deletes the account of k runs while a
\* transaction of the caller k (a profile update, or a device registration)
\* is open.  Each writes privately until it commits.  A DELETE or UPDATE
\* locks the row it writes, the foreign key check of an INSERT INTO devices
\* locks the referenced users row, and a statement that needs a locked row
\* waits for the holder to commit, then reads the committed rows.

\* Mutant: rows are read and written without being locked
RowLock_None(held, who) == held

\* The holder of the lock on the users row once who has taken it
RowLock(held, who) == who

\* UPDATE public.users SET patch WHERE id = uid by the caller uid, applied to
\* the store st in a transaction begun at time t
UpdateProfileIn(st, uid, patch, t) ==
    LET visible == { r \in st.users : /\ r.id = uid
                                      /\ UsersUpdateUsing(uid, r)
                                      /\ UsersSelectUsing(uid, r) }
        newRows == { [ApplyPatch(r, patch) EXCEPT !.updated_at = t] : r \in visible }
        us2     == (st.users \ visible) \cup newRows
    IN  IF /\ \A n \in newRows : UsersUpdateCheck(uid, n)
           /\ ConstraintsHold(us2, st.devices)
        THEN [st EXCEPT !.users = us2]
        ELSE st

\* INSERT INTO public.devices VALUES row by the caller uid, applied to st
RegisterDeviceIn(st, uid, row) ==
    IF InsertStatus(uid, st.users, st.devices, row) = "ok"
    THEN [st EXCEPT !.devices = @ \cup {row}]
    ELSE st

\* Both transactions begin: the provider deletes the auth.users row of k, the
\* caller k issues its statement
BeginConcurrent(k, kind, token) ==
    /\ txn.del.pc = "idle" /\ txn.op.pc = "idle"
    /\ k \in auth
    /\ kind = "register_device" => nextDevId <= MaxDevId
    /\ txn' = [txn EXCEPT !.start = Store, !.time = now,
                          !.del.pc = "begun", !.del.key = k,
                          !.op.pc = "begun", !.op.kind = kind, !.op.by = k,
                          !.op.token = token, !.op.id = nextDevId]
    /\ UNCHANGED <<auth, users, devices, now, nextDevId, last, screen>>

\* handle_deleted_user() in the provider's transaction: the DELETE locks the
\* users row, and its cascade marks the committed devices of that row
DeleteUsersRow ==
    LET gone == handle_deleted_user([id |-> txn.del.key])
    IN  /\ txn.del.pc = "begun"
        /\ gone # {} => txn.lock = NULL
        /\ txn' = [txn EXCEPT !.del.pc = "deleted", !.del.gone = gone,
                              !.del.casc = devices \ CascadeDelete(devices, gone),
                              !.lock = IF gone # {} THEN RowLock(@, "del") ELSE @]
        /\ UNCHANGED <<auth, users, devices, now, nextDevId, last, screen>>

\* The provider's transaction commits
CommitDelete ==
    /\ txn.del.pc = "deleted"
    /\ auth' = auth \ {txn.del.key}
    /\ users' = users \ txn.del.gone
    /\ devices' = devices \ txn.del.casc
    /\ txn' = [txn EXCEPT !.del.pc = "done",
                          !.lock = IF @ = "del" THEN NULL ELSE @]
    /\ UNCHANGED <<now, nextDevId, last, screen>>

\* The caller's UPDATE public.users SET display_name = ... WHERE id = auth.uid():
\* it locks the row it finds, or updates no row when none is there
UpdateLockRow(patch) ==
    LET uid     == txn.op.by
        visible == { r \in users : /\ r.id = uid
                                   /\ UsersUpdateUsing(uid, r)
                                   /\ UsersSelectUsing(uid, r) }
        newRows == { [ApplyPatch(r, patch) EXCEPT !.updated_at = txn.time] :
                        r \in visible }
    IN  /\ txn.op.pc = "begun" /\ txn.op.kind = "update_profile"
        /\ IF visible = {}
           THEN txn' = [txn EXCEPT !.op.pc = "done", !.op.status = "ok"]
           ELSE /\ txn.lock = NULL
                /\ txn' = [txn EXCEPT !.op.pc = "locked", !.op.old = visible,
                                      !.op.newU = newRows, !.op.status = "ok",
                                      !.lock = RowLock(@, "op")]
        /\ UNCHANGED <<auth, users, devices, now, nextDevId, last, screen>>

\* The caller's INSERT INTO public.devices (user_id, fcm_token): the policy and
\* the constraints are checked against the committed rows, and the foreign key
\* check locks the users row FOR KEY SHARE
RegisterDeviceCheck ==
    LET uid    == txn.op.by
        row    == [id |-> txn.op.id, user_id |-> uid, fcm_token |-> txn.op.token,
                   updated_at |-> txn.time]
        status == InsertStatus(uid, users, devices, row)
    IN  /\ txn.op.pc = "begun" /\ txn.op.kind = "register_device"
        /\ IF status # "ok"
           THEN txn' = [txn EXCEPT !.op.pc = "done", !.op.status = status]
           ELSE /\ txn.lock = NULL
                /\ txn' = [txn EXCEPT !.op.pc = "locked", !.op.newD = {row},
                                      !.op.status = "ok",
                                      !.lock = RowLock(@, "op")]
        /\ UNCHANGED <<auth, users, devices, now, nextDevId, last, screen>>

\* The caller's transaction commits
CommitOp ==
    /\ txn.op.pc = "locked"
    /\ users' = (users \ txn.op.old) \cup txn.op.newU
    /\ devices' = devices \cup txn.op.newD
    /\ nextDevId' = IF txn.op.newD # {} THEN nextDevId + 1 ELSE nextDevId
    /\ txn' = [txn EXCEPT !.op.pc = "done",
                          !.lock = IF @ = "op" THEN NULL ELSE @]
    /\ UNCHANGED <<auth, now, last, screen>>

\* No transaction is open
Quiet == txn.del.pc = "idle" /\ txn.op.pc = "idle"

\* One identity sets up its rows, then the two transactions run interleaved
NextConcurrent ==
    \/ Quiet /\ NewTransaction /\ Elsewhere
    \/ \E p \in SyncPayloads : Quiet /\ AccountCreated("u1", p) /\ Elsewhere
    \/ \E S \in SUBSET users : Quiet /\ DeleteUsers("u1", S) /\ Elsewhere
    \/ \E t \in Tokens : Quiet /\ InsertDevices("u1", "u1", t, now) /\ Elsewhere
    \/ \E kind \in {"update_profile", "register_device"}, t \in Tokens :
          BeginConcurrent("u1", kind, t)
    \/ DeleteUsersRow
    \/ CommitDelete
    \/ \E p \in ProfileEdits : UpdateLockRow(p)
    \/ RegisterDeviceCheck
    \/ CommitOp
SpecConcurrent == Init /\ [][NextConcurrent]_vars

\* ---------------------------------------------------------- onboarding screen
\* app/(auth)/onboarding.tsx: the handlers of the two sign-in buttons.  A
\* handler awaits the store's sign-in call; the call resolves, or rejects with
\* some value error.
CancelMessage == "Sign in was cancelled"
FallbackMessage == "An unexpected error occurred"
\* The value a rejected call throws: an Error with a message, or a value that
\* is no Error (whatever it holds under the name message)
ErrorMessages == {CancelMessage, "Network request failed"}
Rejections == [isError : BOOLEAN, message : ErrorMessages]

\* error instanceof Error ? error.message : 'An unexpected error occurred'
AlertMessage(error) == IF error.isError THEN error.message ELSE FallbackMessage

\* Alert.alert(title, message)
ShowAlert(title, error) ==
    Append(screen.alerts, [title |-> title, message |-> AlertMessage(error)])

\* A handler ran to its end: with the error it caught, if any, and by
\* returning (no statement of it throws)
Completed(handler, rejected, error) ==
    [handler |-> handler, rejected |-> rejected, error |-> error,
     outcome |-> "returned"]

\* onGoogleSignIn is called and awaits signInWithGoogle()
onGoogleSignIn ==
    /\ "google" \notin screen.pending
    /\ screen' = [screen EXCEPT !.pending = @ \cup {"google"}]
    /\ UNCHANGED <<auth, users, devices, now, nextDevId, last, txn>>

\* signInWithGoogle() resolves: the try block ends
signInWithGoogle_Resolved ==
    /\ "google" \in screen.pending
    /\ screen' = [screen EXCEPT !.pending = @ \ {"google"},
                                !.done = Completed("onGoogleSignIn", FALSE,
                                                   ScreenIdle.done.error)]
    /\ UNCHANGED <<auth, users, devices, now, nextDevId, last, txn>>

\* signInWithGoogle() rejects: the catch block shows the alert
signInWithGoogle_Rejected(error) ==
    /\ "google" \in screen.pending
    /\ Len(screen.alerts) < MaxAlerts
    /\ screen' = [screen EXCEPT !.pending = @ \ {"google"},
                                !.alerts = ShowAlert("Google Sign In Failed", error),
                                !.done = Completed("onGoogleSignIn", TRUE, error)]
    /\ UNCHANGED <<auth, users, devices, now, nextDevId, last, txn>>

\* onAppleSignIn is called and awaits signInWithApple()
onAppleSignIn ==
    /\ "apple" \notin screen.pending
    /\ screen' = [screen EXCEPT !.pending = @ \cup {"apple"}]
    /\ UNCHANGED <<auth, users, devices, now, nextDevId, last, txn>>

\* signInWithApple() resolves: the try block ends
signInWithApple_Resolved ==
    /\ "apple" \in screen.pending
    /\ screen' = [screen EXCEPT !.pending = @ \ {"apple"},
                                !.done = Completed("onAppleSignIn", FALSE,
                                                   ScreenIdle.done.error)]
    /\ UNCHANGED <<auth, users, devices, now, nextDevId, last, txn>>

\* Mutant: the catch block has no early return for a cancelled sign-in
signInWithApple_Rejected_NoReturn(error) ==
    /\ "apple" \in screen.pending
    /\ Len(screen.alerts) < MaxAlerts
    /\ screen' = [screen EXCEPT !.pending = @ \ {"apple"},
                                !.alerts = ShowAlert("Apple Sign In Failed", error),
                                !.done = Completed("onAppleSignIn", TRUE, error)]
    /\ UNCHANGED <<auth, users, devices, now, nextDevId, last, txn>>

\* signInWithApple() rejects: the catch block returns at once for an Error
\* whose message is 'Sign in was cancelled', and shows the alert otherwise
signInWithApple_Rejected(error) ==
    /\ "apple" \in screen.pending
    /\ IF error.isError /\ error.message = CancelMessage
       THEN screen' = [screen EXCEPT !.pending = @ \ {"apple"},
                                    !.done = Completed("onAppleSignIn", TRUE, error)]
       ELSE /\ Len(screen.alerts) < MaxAlerts
            /\ screen' = [screen EXCEPT !.pending = @ \ {"apple"},
                                !.alerts = ShowAlert("Apple Sign In Failed", error),
                                !.done = Completed("onAppleSignIn", TRUE, error)]
    /\ UNCHANGED <<auth, users, devices, now, nextDevId, last, txn>>

NextOnboarding ==
    \/ onGoogleSignIn
    \/ signInWithGoogle_Resolved
    \/ \E e \in Rejections : signInWithGoogle_Rejected(e)
    \/ onAppleSignIn
    \/ signInWithApple_Resolved
    \/ \E e \in Rejections : signInWithApple_Rejected(e)
SpecOnboarding == Init /\ [][NextOnboarding]_vars

\* ================================================================ claims
UserIds(us) == { r.id : r \in us }
\* A step that runs a statement or an event: last' then describes that step
\* (NewTransaction alone leaves last as it is)
StatementStep == now' = now /\ vars' # vars

\* C1: in every reachable state the ids of the User rows are exactly the
\* active provider accounts, one row per account.
C1_OneUserRowPerAccount ==
    /\ UserIds(users) = auth
    /\ Cardinality(users) = Cardinality(auth)

\* C2: a read, update or delete by caller A never returns or changes a User
\* or Device row owned by another identity B (each such row the statement's
\* WHERE clause matched is still in its table, as it was, and is not among
\* the result rows), and a Device create by A that writes B as owner is
\* denied and creates nothing.
C2_CrossOwnerDenied ==
    last.by \in Ids =>
      /\ last.op \in {"select_users", "update_users", "delete_users"} =>
            \A r \in last.arg.rows : r.id # last.by => r \in users /\ r \notin last.urows
      /\ last.op \in {"select_devices", "update_devices", "delete_devices"} =>
            \A d \in last.arg.rows :
               d.user_id # last.by => d \in devices /\ d \notin last.drows
      /\ last.op \in {"select_users", "select_devices"} =>
            /\ \A r \in last.urows : r.id = last.by
            /\ \A d \in last.drows : d.user_id = last.by
      /\ (last.op = "insert_devices" /\ last.key # last.by) =>
            /\ last.status = "denied"
            /\ last.drows = {}
            /\ \A d \in devices : d.id < nextDevId

\* C2 witness: A updated a set of devices holding a row of its own and a row of B
C2_Witness ==
    /\ last.op = "update_devices" /\ last.by \in Ids /\ last.status = "ok"
    /\ \E d \in last.arg.rows : d.user_id # last.by
    /\ \E d \in last.arg.rows : d.user_id = last.by
    /\ last.drows # {}

\* C3: after an account-deleted event for k, no User row with id k and no
\* Device row owned by k is left.
C3_AccountDeletedCascades ==
    last.op = "account_deleted" =>
      /\ last.status = "ok"
      /\ last.key \notin auth
      /\ \A r \in users : r.id # last.key
      /\ \A d \in devices : d.user_id # last.key

\* C3 witness: the deleted account had a User row and two devices
C3_Witness ==
    /\ last.op = "account_deleted"
    /\ last.urows # {}
    /\ Cardinality(last.drows) >= 2

\* The text of a metadata key as the provider supplied it, NULL when the
\* metadata or the key is absent
Supplied(payload, key) ==
    IF payload.raw_user_meta_data.isNull THEN NULL
    ELSE IF key \in DOMAIN payload.raw_user_meta_data.obj
         THEN payload.raw_user_meta_data.obj[key] ELSE NULL

\* C4: after an account-created event for k the event has not failed, exactly
\* one User row has id k, and its email, display name and avatar URL are what
\* the provider supplied, each one unset when it was not supplied.
C4_AccountCreatedMirrors ==
    last.op = "account_created" =>
      /\ last.status = "ok"
      /\ last.key \in auth
      /\ Cardinality({ r \in users : r.id = last.key }) = 1
      /\ \A r \in users : r.id = last.key =>
            /\ r.email = last.arg.email
            /\ r.display_name = Supplied(last.arg, "full_name")
            /\ r.photo_url = Supplied(last.arg, "avatar_url")

\* C4 witness: an account created with an email and no metadata at all
C4_Witness ==
    /\ last.op = "account_created"
    /\ last.arg.raw_user_meta_data.isNull
    /\ \E r \in users :
          /\ r.id = last.key /\ r.email # NULL
          /\ r.display_name = NULL /\ r.photo_url = NULL

\* C5: every Device row's owning-user key is the id of an existing User row.
C5_NoOrphanDevice == \A d \in devices : d.user_id \in UserIds(users)

\* C5 witness: an owner deleted their own User row, their devices went with
\* it, and a device of another user is left
C5_Witness ==
    /\ last.op = "delete_users" /\ last.status = "ok"
    /\ last.urows # {} /\ last.drows # {}
    /\ devices # {}

SamePair(d, owner, token) == d.user_id = owner /\ d.fcm_token = token

\* C6: a Device create by u for (u, t), u having a User row, is rejected
\* exactly when a Device (u, t) already exists (so it succeeds for another
\* token of u and for the same token of another user) and then leaves the
\* table as it was, and adds exactly the new row otherwise; in every state,
\* token refreshes included, no two Device rows share (owning user, token).
C6_UniqueUserToken ==
    [][ /\ \A d, e \in devices' : SamePair(d, e.user_id, e.fcm_token) => d.id = e.id
        /\ ( /\ StatementStep
             /\ last'.op = "insert_devices"
             /\ last'.by = last'.key
             /\ last'.arg.token # NULL
             /\ last'.key \in UserIds(users) )
           => /\ last'.status = "rejected"
                   <=> \E d \in devices : SamePair(d, last'.key, last'.arg.token)
              /\ last'.status = "rejected" => devices' = devices
              /\ last'.status # "rejected" =>
                   /\ last'.status = "ok"
                   /\ Cardinality(last'.drows) = 1
                   /\ devices' = devices \cup last'.drows
                   /\ \A d \in last'.drows : /\ SamePair(d, last'.key, last'.arg.token)
                                             /\ d \notin devices
      ]_vars

\* C6 witness: u's second create of (u, t) was rejected while another user
\* holds a Device with the same token t and u holds one with another token
C6_Witness ==
    /\ last.op = "insert_devices" /\ last.status = "rejected"
    /\ \E d \in devices : SamePair(d, last.key, last.arg.token)
    /\ \E d \in devices : d.fcm_token = last.arg.token /\ d.user_id # last.key

\* The row of id i in the table rows
RowOf(rows, i) == CHOOSE r \in rows : r.id = i
UpdateStep ==
    /\ StatementStep
    /\ last'.op \in {"update_users", "update_devices"}
    /\ last'.status = "ok"

\* C7 (as claimed): after every permitted update of a User or Device row its
\* updated_at is the current time and strictly greater than before.
C7_UpdatedAtStrictlyGreater ==
    [][ UpdateStep =>
          \A n \in last'.urows \cup last'.drows :
             /\ n.updated_at = now
             /\ n.updated_at > RowOf(last'.arg.rows, n.id).updated_at
      ]_vars

\* C7 (amended): after every permitted update of a User or Device row its
\* updated_at is NOW(), whatever value the caller supplied for it, the row is
\* in its table with that value, and the value is strictly greater than
\* before exactly when the value before was earlier than NOW().
C7_UpdatedAtIsNow ==
    [][ UpdateStep =>
          \A n \in last'.urows \cup last'.drows :
             /\ n.updated_at = now
             /\ n \in users' \cup devices'
             /\ n.updated_at > RowOf(last'.arg.rows, n.id).updated_at
                  <=> RowOf(last'.arg.rows, n.id).updated_at < now
      ]_vars

\* C7 witness: a Device update whose SET list supplied another updated_at
\* stamped the row with NOW(), later than its value before
C7_Witness ==
    /\ last.op = "update_devices" /\ last.status = "ok"
    /\ "updated_at" \in DOMAIN last.arg.set
    /\ last.arg.set.updated_at # now
    /\ \E n \in last.drows :
          /\ n.updated_at = now
          /\ n \in devices
          /\ RowOf(last.arg.rows, n.id).updated_at < n.updated_at

\* C8: no statement of a caller, authenticated or not, creates a User row: a
\* caller's step adds no id to the User table, and every INSERT INTO users,
\* the caller's own identity as id included, is denied and changes nothing.
C8_NoUserCreateByCaller ==
    [][ /\ last'.by # "provider" => UserIds(users') \subseteq UserIds(users)
        /\ (StatementStep /\ last'.op = "insert_users") =>
              /\ last'.status = "denied"
              /\ last'.urows = {}
              /\ users' = users
      ]_vars

\* C8 witness: an authenticated caller without a User row tried to insert one
\* with its own identity as id
C8_Witness ==
    /\ last.op = "insert_users" /\ last.status = "denied"
    /\ last.by \in Ids /\ last.key = last.by
    /\ last.by \in auth /\ last.by \notin UserIds(users)

\* C9: a statement of an unauthenticated caller returns no row and changes
\* neither table, and its INSERTs are denied.
C9_UnauthenticatedDenied ==
    [][ (StatementStep /\ last'.by = NULL) =>
          /\ last'.urows = {} /\ last'.drows = {}
          /\ users' = users /\ devices' = devices /\ auth' = auth
          /\ last'.op \in {"insert_users", "insert_devices"} => last'.status = "denied"
      ]_vars

\* C9 witness: an unauthenticated SELECT over existing User rows returned none
C9_Witness ==
    /\ last.by = NULL /\ last.op = "select_users"
    /\ last.arg.rows # {} /\ last.arg.rows \subseteq users
    /\ last.urows = {}

\* C10: no step changes the owner of an existing Device row; an update by A
\* of a Device row of A that sets its owner to another identity, and an
\* update by A of A's User row that sets its id to another identity, is
\* denied and changes nothing.
C10_OwnerNeverChanges ==
    [][ /\ \A d \in devices, e \in devices' : d.id = e.id => e.user_id = d.user_id
        /\ ( /\ StatementStep
             /\ last'.op = "update_devices"
             /\ last'.key \notin {NULL, last'.by}
             /\ \E d \in last'.arg.rows : d.user_id = last'.by )
           => /\ last'.status = "denied"
              /\ users' = users /\ devices' = devices
        /\ ( /\ StatementStep
             /\ last'.op = "update_users"
             /\ last'.key \notin {NULL, last'.by}
             /\ \E r \in last'.arg.rows : r.id = last'.by )
           => /\ last'.status = "denied"
              /\ users' = users /\ devices' = devices
      ]_vars

\* C10 witness: A's update of its own Device to owner B, B having a User
\* row, was denied
C10_Witness ==
    /\ last.op = "update_devices" /\ last.status = "denied"
    /\ last.by \in Ids /\ last.key \in UserIds(users) \ {last.by}
    /\ \E d \in last.arg.rows : d.user_id = last.by /\ d \in devices

\* C11: when the mirroring step of an account-created or account-deleted
\* event fails, the provider-side change is rolled back with it: the provider
\* accounts, the User table and the Device table are as they were before the
\* event.
C11_FailedMirrorRollsBack ==
    [][(StatementStep /\ last'.by = "provider" /\ last'.status # "ok") =>
          (auth' = auth /\ users' = users /\ devices' = devices)]_vars

\* C11 witness: an account-created event failed on a User row that held its
\* key, and the account does not exist
C11_Witness ==
    /\ last.op = "account_created" /\ last.status = "rejected"
    /\ last.key \notin auth
    /\ last.key \in UserIds(users)

\* The rows the identity a owns
OwnUsers(a) == { r \in users : r.id = a }
OwnDevices(a) == { d \in devices : d.user_id = a }

\* C12: every read, create and delete issued by caller A has the outcome it
\* has in the state that differs only by holding no row of another identity:
\* the status of a create, and the rows a read returns or a delete removes,
\* are those computed from the rows A owns alone.
C12_OthersRowsUnobservable ==
    [][(StatementStep /\ last'.by \in Ids) =>
         LET a   == last'.by
             req == last'.arg
         IN  /\ last'.op = "insert_devices" =>
                   last'.status =
                      InsertStatus(a, OwnUsers(a), OwnDevices(a),
                         [id |-> IF "id" \in DOMAIN req THEN req.id ELSE nextDevId,
                          user_id |-> last'.key, fcm_token |-> req.token,
                          updated_at |-> req.updated_at])
             /\ last'.op \in {"select_users", "delete_users"} =>
                   /\ last'.status = "ok"
                   /\ last'.urows = req.rows \cap OwnUsers(a)
             /\ last'.op = "select_devices" =>
                   /\ last'.status = "ok"
                   /\ last'.drows = req.rows \cap OwnDevices(a)
             /\ last'.op = "delete_devices" =>
                   /\ last'.status = "ok"
                   /\ last'.drows = req.rows \cap OwnDevices(a)
             /\ last'.op = "delete_users" =>
                   last'.drows = IF req.rows \cap OwnUsers(a) = {} THEN {}
                                 ELSE OwnDevices(a)]_vars

\* C13: a read, update or delete by caller A over a set S of rows of several
\* owners returns or changes exactly the rows of S that A owns (a read returns
\* them, a delete removes them, an update rewrites them under their ids), and
\* every row of S owned by another identity stays in its table as it was; a
\* statement that fails changes no row of S.
C13_PerRowOwnership ==
    (last.by \in Ids /\ last.op \in {"select_users", "update_users", "delete_users",
                                      "select_devices", "update_devices",
                                      "delete_devices"}) =>
      LET a    == last.by
          S    == last.arg.rows
          ownU == { r \in S : r.id = a }
          ownD == { d \in S : d.user_id = a }
      IN  /\ last.op = "select_users" => last.urows = ownU /\ S \subseteq users
          /\ last.op = "select_devices" => last.drows = ownD /\ S \subseteq devices
          /\ last.op = "delete_users" =>
                /\ last.urows = ownU
                /\ \A r \in S : r \in users <=> r.id # a
          /\ last.op = "delete_devices" =>
                /\ last.drows = ownD
                /\ \A d \in S : d \in devices <=> d.user_id # a
          /\ (last.op = "update_users" /\ last.status = "ok") =>
                /\ UserIds(last.urows) = UserIds(ownU)
                /\ Cardinality(last.urows) = Cardinality(ownU)
                /\ last.urows \subseteq users
                /\ \A r \in S \ ownU : r \in users
          /\ (last.op = "update_devices" /\ last.status = "ok") =>
                /\ { d.id : d \in last.drows } = { d.id : d \in ownD }
                /\ Cardinality(last.drows) = Cardinality(ownD)
                /\ last.drows \subseteq devices
                /\ \A d \in last.drows :
                      \A f \in DOMAIN last.arg.set \ {"updated_at"} : d[f] = last.arg.set[f]
                /\ \A d \in S \ ownD : d \in devices
          /\ (last.op = "update_users" /\ last.status # "ok") => S \subseteq users
          /\ (last.op = "update_devices" /\ last.status # "ok") => S \subseteq devices

\* C13 witness: A deleted from a set holding devices of A and of B; A's row is
\* gone and B's row is in the table
C13_Witness ==
    /\ last.op = "delete_devices" /\ last.by \in Ids /\ last.status = "ok"
    /\ \E d \in last.arg.rows : d.user_id = last.by /\ d \in last.drows /\ d \notin devices
    /\ \E d \in last.arg.rows : d.user_id # last.by /\ d \in devices

\* C14: a Device create or update that violates a constraint (the (owning
\* user, token) pair is held by another row, the owning user or the token is
\* missing, or the owning user has no User row) ends in an error reported to
\* the caller, a constraint violation when the policy admits the row, and
\* leaves both tables as they were.
C14_ConstraintViolationRejected ==
    [][(StatementStep /\ last'.op \in {"insert_devices", "update_devices"}) =>
         LET a     == last'.by
             req   == last'.arg
             own   == IF last'.op = "update_devices"
                      THEN { d \in req.rows : d.user_id = a /\ a # NULL } ELSE {}
             token == IF last'.op = "insert_devices" THEN req.token
                      ELSE PatchKey(req.set, "fcm_token")
             violates ==
               IF last'.op = "insert_devices"
               THEN \/ last'.key = NULL \/ token = NULL
                    \/ last'.key \notin UserIds(users)
                    \/ \E d \in devices : SamePair(d, last'.key, token)
               ELSE /\ own # {}
                    /\ \/ \E f \in DOMAIN req.set : req.set[f] = NULL
                       \/ /\ "fcm_token" \in DOMAIN req.set
                          /\ \/ Cardinality(own) > 1
                             \/ \E d \in devices \ own : SamePair(d, a, token)
         IN  violates =>
               /\ last'.status # "ok"
               /\ (last'.op = "insert_devices" /\ a # NULL /\ last'.key = a) =>
                     last'.status = "rejected"
               /\ (last'.op = "update_devices" /\ "fcm_token" \in DOMAIN req.set) =>
                     last'.status = "rejected"
               /\ users' = users
               /\ devices' = devices]_vars

\* C14 witness: an update that would give two devices of the caller the same
\* token was rejected and both rows are as they were
C14_Witness ==
    /\ last.op = "update_devices" /\ last.status = "rejected"
    /\ "fcm_token" \in DOMAIN last.arg.set
    /\ \E d, e \in last.arg.rows :
          /\ d # e /\ d.user_id = last.by /\ e.user_id = last.by
          /\ d \in devices /\ e \in devices

\* A delivery of the account-created event for an identity that has a User row
RedeliveryStep ==
    /\ StatementStep
    /\ last'.op = "account_redelivered"
    /\ last'.key \in UserIds(users)

\* C16: an account-created event delivered again for an identity that has a
\* User row completes without error and leaves the User rows and the Device
\* rows unchanged.
C16_RedeliveryIsNoOp ==
    [][RedeliveryStep =>
          (last'.status = "ok" /\ users' = users /\ devices' = devices)]_vars

\* C16, amended: the second delivery fails on users_pkey, and the failure
\* leaves the provider accounts, the User rows and the Device rows unchanged.
C16_RedeliveryRejected ==
    [][RedeliveryStep =>
          /\ last'.status = "rejected"
          /\ auth' = auth /\ users' = users /\ devices' = devices]_vars

\* C16 witness: a second delivery without metadata met a User row whose
\* display name is set, and a device of that identity
C16_Witness ==
    /\ last.op = "account_redelivered" /\ last.status = "rejected"
    /\ last.arg.raw_user_meta_data.isNull
    /\ \E r \in users : r.id = last.key /\ r.display_name = "Ann"
    /\ \E d \in devices : d.user_id = last.key

\* C18: an account-deleted event for an identity whose User row is absent
\* completes without error: the provider account is removed, and the User and
\* Device tables are unchanged.
C18_DeleteWithoutRowSucceeds ==
    [][(StatementStep /\ last'.op = "account_deleted"
          /\ last'.key \notin UserIds(users)) =>
          /\ last'.status = "ok"
          /\ auth' = auth \ {last'.key} /\ last'.key \in auth
          /\ users' = users /\ devices' = devices]_vars

\* C18 witness: the account of an identity without a User row was deleted
\* while another identity had a User row and a device
C18_Witness ==
    /\ last.op = "account_deleted" /\ last.status = "ok"
    /\ last.urows = {} /\ last.key \notin auth
    /\ \E d \in devices : d.user_id # last.key

\* C17: an account-created or account-deleted event for identity X leaves the
\* User row and the Device rows of every other identity unchanged, and applied
\* with an event for another identity Y (each in its own transaction) it gives
\* the same store whichever of the two is applied first.
C17_EventsIndependent ==
    [][(StatementStep /\ last'.op \in {"account_created", "account_deleted"}) =>
         LET x  == last'.key
             e1 == [op |-> last'.op, key |-> x,
                    payload |-> IF last'.op = "account_created"
                                THEN [email |-> last'.arg.email,
                                      raw_user_meta_data |-> last'.arg.raw_user_meta_data]
                                ELSE NULL]
         IN  /\ { r \in users' : r.id # x } = { r \in users : r.id # x }
             /\ { d \in devices' : d.user_id # x } = { d \in devices : d.user_id # x }
             /\ Store' = ApplyEvent(Store, e1, now)
             /\ \A e2 \in EventsOn(Store), t \in now..MaxTime :
                   e2.key # x =>
                     ApplyEvent(Store', e2, t) =
                        ApplyEvent(ApplyEvent(Store, e2, t), e1, now)]_vars

\* C17 witness: the account of an identity that had devices was deleted at the
\* last tick while another identity has a User row and a device
C17_Witness ==
    /\ last.op = "account_deleted" /\ last.status = "ok" /\ now = MaxTime
    /\ last.drows # {} /\ last.urows # {}
    /\ \E r \in users : r.id # last.key
    /\ \E d \in devices : d.user_id # last.key

\* The caller's statement of the two transactions in flight, as a function of
\* the store
OpIn(st) ==
    IF txn.op.kind = "update_profile"
    THEN UpdateProfileIn(st, txn.op.by, CHOOSE p \in ProfileEdits : TRUE, txn.time)
    ELSE RegisterDeviceIn(st, txn.op.by,
            [id |-> txn.op.id, user_id |-> txn.op.by, fcm_token |-> txn.op.token,
             updated_at |-> txn.time])

\* C15: once an account-deleted event for k and a concurrent profile update
\* or device registration by k have both ended, however their steps were
\* interleaved, the store is the one a serial order of the two gives, and it
\* holds no User row and no Device row of k.
C15_InterleavingsSerializable ==
    (txn.del.pc = "done" /\ txn.op.pc = "done") =>
       LET k == txn.del.key
       IN  /\ Store \in { OpIn(DeletedIn(txn.start, k)),
                           DeletedIn(OpIn(txn.start), k) }
           /\ k \notin auth
           /\ \A r \in users : r.id # k
           /\ \A d \in devices : d.user_id # k

\* C15 witness: the registration committed a device while the deletion was
\* open, and the deletion's cascade removed it with the devices k had before
C15_Witness ==
    /\ txn.del.pc = "done" /\ txn.op.pc = "done"
    /\ txn.op.kind = "register_device" /\ txn.op.status = "ok"
    /\ txn.op.newD # {} /\ txn.op.newD \subseteq txn.del.casc
    /\ txn.start.devices # {}

\* A sign-in call rejected and its handler ran to the end
RejectionHandled ==
    /\ screen'.pending # screen.pending
    /\ screen'.pending \subseteq screen.pending
    /\ screen'.done.rejected

\* C19: a rejection of signInWithApple whose error message is 'Sign in was
\* cancelled' shows no alert; every other rejection of signInWithApple, and
\* every rejection of signInWithGoogle, shows exactly one alert, the failure
\* alert of that provider; in each case the handler returns without
\* rethrowing.
C19_OneAlertUnlessAppleCancelled ==
    [][RejectionHandled =>
         LET done  == screen'.done
             shown == Len(screen'.alerts) - Len(screen.alerts)
             title == IF done.handler = "onAppleSignIn" THEN "Apple Sign In Failed"
                      ELSE "Google Sign In Failed"
         IN  /\ done.outcome = "returned"
             /\ SubSeq(screen'.alerts, 1, Len(screen.alerts)) = screen.alerts
             /\ IF done.handler = "onAppleSignIn"
                   /\ AlertMessage(done.error) = CancelMessage
                THEN shown = 0
                ELSE /\ shown = 1
                     /\ screen'.alerts[Len(screen'.alerts)] =
                           [title |-> title, message |-> AlertMessage(done.error)]]_vars

\* C19 witness: after two failure alerts, a cancelled Apple sign-in ended
\* without a third
C19_Witness ==
    /\ screen.done.handler = "onAppleSignIn" /\ screen.done.rejected
    /\ screen.done.error = [isError |-> TRUE, message |-> CancelMessage]
    /\ Len(screen.alerts) = 2
    /\ screen.alerts[1].title = "Google Sign In Failed"
    /\ screen.alerts[2].title = "Apple Sign In Failed"

====
